---------------------------- MODULE Spec2Model ----------------------------
(***************************************************************************)
(* Model of the sequential A/B test evaluator of basemath                  *)
(* (src/basemath_analysis/basemath.py, class BaseMathsTest), and of its    *)
(* variant without argument checks (src/basemath/basemath.py).  The two    *)
(* classes share the instance layout; the variant's constructor and        *)
(* evaluator are the actions of SpecLenient, and the text of its           *)
(* _probability_of_crossing (lines 50-68) is that of the checked class,    *)
(* so both evaluators use the operator probability_of_crossing.            *)
(*                                                                         *)
(* Number representation.  The program computes with Python floats; the    *)
(* model computes with fixed-point integers:                               *)
(*   - means, mde, alpha, beta, intercept and success deltas in units of   *)
(*     1/Scale,                                                            *)
(*   - variances in units of 1/VarScale (= 1/Scale^2, so that              *)
(*     mean * (1 - mean) is exact),                                        *)
(*   - the clipping share in units of 1/ShareScale,                        *)
(*   - the exponent of the crossing probability and the logarithm of a     *)
(*     uniform variate in units of 1/LnScale.                              *)
(* Optional values (var_A, seed) are sequences of length at most one:      *)
(* None is << >>, a value v is << v >>.                                    *)
(*                                                                         *)
(* The instance is observed in two runs of the program (Runs): both runs   *)
(* construct the object with the same arguments and make the same calls.   *)
(* The attributes computed by the constructor are pure functions of the    *)
(* arguments and are kept once (self); the seed, the uniform draws and the *)
(* returned verdicts are kept per run.                                     *)
(***************************************************************************)
EXTENDS Integers, Sequences, FiniteSets, TLC

\* ------------------------------------------------------------------ bounds
\* Number of calls of evaluate_experiment that pass the precondition checks
\* (the sampler table below covers seed chains of this length plus two).
MaxCalls == 2

Runs == {1, 2}

\* ------------------------------------------------------- number formats
Scale == 100
VarScale == 10000
ShareScale == 1000000
LnScale == 100
RootScale == 10

None == << >>
Some(v) == << v >>
IsNone(o) == o = << >>
Val(o) == o[1]

Abs(x) == IF x < 0 THEN -x ELSE x

\* ------------------------------------------------- constructor arguments
\* Values handed to BaseMathsTest(mean_A, mde, alpha, beta, var_A, seed),
\* in units of 1/Scale.  They contain the boundary values of every check of
\* the constructor: 0 and 1 for alpha and beta, 0 for mde, 0 and >= 1 for
\* mean_A, 0 for var_A, and a treatment mean of exactly 1 (0.5 * (1 + 1)).
MeanValues == {0, 50, 60, 500}
MdeValues == {0, 50, 100}
AlphaValues == {0, 5, 100}
BetaValues == {0, 20, 100}
VarValues == {None, Some(0), Some(200)}
SeedValues == {None, Some("b")}

\* --------------------------------------------- evaluate_experiment inputs
\* Whole numbers of samples and of successes reported by the caller.
PrevSamples == {-1, 0, 22, 30, 31}
Increments == {-1, 0, 8, 9}
PrevDeltas == {0, 5}
Changes == {-2, 0, 9}

\* ----------------------------------------------------- external libraries
\* hashlib.sha256(seed.encode()).hexdigest()[:8] read as a base-16 number.
sha256_prefix(s) ==
  CASE s = "b" -> 1042540566

\* scipy.special.erfinv(1 - beta) in units of 1/1000, for beta in 1/Scale.
ErfinvScale == 1000
erfinv_1_minus(beta) ==
  CASE beta = 20 -> 906
    [] beta = 1 -> 1821

\* Floor of the square root (np.sqrt on fixed-point numbers).
RECURSIVE SqrtSearch(_, _, _)
SqrtSearch(n, lo, hi) ==
  IF lo >= hi THEN lo
  ELSE LET mid == (lo + hi + 1) \div 2
       IN IF mid * mid <= n THEN SqrtSearch(n, mid, hi)
                            ELSE SqrtSearch(n, lo, mid - 1)
ISqrt(n) == SqrtSearch(n, 0, 46340)

\* scipy.optimize.root(fun, x0=100).x[0] for the solver arguments the
\* constructor arguments above can produce (alpha = 0.05, beta = 0.2), in
\* units of 1/RootScale rounded up.  `status` is what is known of the
\* residual |fun(x)| <= 1e-6: "converged" and "failed" are fixed by the
\* repository's tests (required_samples == 30, == 308, and the solver error
\* for mean_A = 5, mde = 0.5, var_A = 2); "unknown" is a root of fun for
\* which the library may or may not converge from x0 = 100.  Arguments a
\* validated constructor call never passes have no tabulated root.  The
\* entry for (0.42, 0.27, 0.4551) is the value the lenient variant's test
\* fixes for alpha = 0.9, beta = 0.01 (required_samples == -301).
optimize_root(var_H0, mean_H1, var_H1) ==
  CASE var_H0 = 5000 /\ mean_H1 = 25 /\ var_H1 = 4375 -> [x |-> 513, status |-> "unknown"]
    [] var_H0 = 5000 /\ mean_H1 = 50 /\ var_H1 = 2500 -> [x |-> 94, status |-> "unknown"]
    [] var_H0 = 4800 /\ mean_H1 = 30 /\ var_H1 = 3300 -> [x |-> 299, status |-> "converged"]
    [] var_H0 = 40000 /\ mean_H1 = 25 /\ var_H1 = 40000 -> [x |-> 4426, status |-> "unknown"]
    [] var_H0 = 40000 /\ mean_H1 = 50 /\ var_H1 = 40000 -> [x |-> 1107, status |-> "unknown"]
    [] var_H0 = 40000 /\ mean_H1 = 30 /\ var_H1 = 40000 -> [x |-> 3073, status |-> "converged"]
    [] var_H0 = 40000 /\ mean_H1 = 60 /\ var_H1 = 40000 -> [x |-> 769, status |-> "unknown"]
    [] var_H0 = 40000 /\ mean_H1 = 250 /\ var_H1 = 40000 -> [x |-> 45, status |-> "failed"]
    [] var_H0 = 40000 /\ mean_H1 = 500 /\ var_H1 = 40000 -> [x |-> 12, status |-> "unknown"]
    [] var_H0 = 4200 /\ mean_H1 = 27 /\ var_H1 = 4551 -> [x |-> -3010, status |-> "failed"]
    [] OTHER -> [x |-> 0, status |-> "failed"]

\* Values optimize.root returns when it stops away from a root of fun, in
\* units of 1/RootScale: fun is constant (alpha - 1) on T <= 0, so the
\* iteration can end there.  -301.0 is the value behind the lenient
\* variant's test (required_samples == -301); 0 is the edge of integral's
\* `T <= 0` branch.
StrayRoots == {-3010, 0}

\* What optimize.root(fun, x0=100).x[0] can be: the tabulated root, or, when
\* the iteration did not converge, also a stray value.
optimize_root_returns(var_H0, mean_H1, var_H1, converged) ==
  IF converged THEN {optimize_root(var_H0, mean_H1, var_H1).x}
  ELSE {optimize_root(var_H0, mean_H1, var_H1).x} \cup StrayRoots

\* A uniform variate u in [0, 1) is the record
\*   scaled = int(1_000_000_000 * u),  ln = floor(LnScale * log(u)),
\* with ln(0) standing for the largest exponent at which np.exp underflows
\* to 0.0 (-745.14).
\* stats.uniform.rvs(random_state=seed) for an integer seed is the first
\* variate of numpy's RandomState(seed) (MT19937, 53-bit double); the table
\* holds its values along the seed chains the model can follow.
rvs(seed) ==
  CASE seed = 1042540566 -> [scaled |-> 15707789, ln |-> -416]
    [] seed = 15707789 -> [scaled |-> 850773827, ln |-> -17]
    [] seed = 850773827 -> [scaled |-> 391464472, ln |-> -94]
    [] seed = 391464472 -> [scaled |-> 597327051, ln |-> -52]
    [] seed = 597327051 -> [scaled |-> 715873288, ln |-> -34]
    [] seed = 0 -> [scaled |-> 548813503, ln |-> -60]
    [] seed = 548813503 -> [scaled |-> 573575221, ln |-> -56]
    [] seed = 573575221 -> [scaled |-> 732316735, ln |-> -32]
    [] seed = 732316735 -> [scaled |-> 332721369, ln |-> -111]
    [] seed = 332721369 -> [scaled |-> 356739363, ln |-> -104]
    [] seed = 999999999 -> [scaled |-> 184348541, ln |-> -170]
    [] seed = 184348541 -> [scaled |-> 759272882, ln |-> -28]
    [] seed = 759272882 -> [scaled |-> 1504429, ln |-> -650]
    [] seed = 1504429 -> [scaled |-> 287026344, ln |-> -125]
    [] seed = 287026344 -> [scaled |-> 154183783, ln |-> -187]
    [] seed = 20000046 -> [scaled |-> 2239282, ln |-> -611]
    [] seed = 2239282 -> [scaled |-> 224040532, ln |-> -150]
    [] seed = 224040532 -> [scaled |-> 772352449, ln |-> -26]
    [] seed = 772352449 -> [scaled |-> 34401630, ln |-> -337]
    [] seed = 34401630 -> [scaled |-> 457265097, ln |-> -79]

\* stats.uniform.rvs(random_state=None) draws from the process-wide
\* generator: any variate of [0, 1).  The model draws the smallest (0.0)
\* and the largest (0.999999999, the value the repository's test patches
\* in) of them.
EntropyDraws ==
  { [scaled |-> 0, ln |-> -74514], [scaled |-> 999999999, ln |-> -1] }

\* ------------------------------------------------------------------ state
VARIABLES
  ctor,        \* outcome of BaseMathsTest(...): status, exception and message
  cargs,       \* the arguments the constructor was called with
  attrs,       \* names of the attributes assigned on the instance so far
  self,        \* values of the instance attributes other than the seed
  seed,        \* self.seed in each run
  solver_ran,  \* whether _calculate_sample_size was called
  root,        \* what the root finder returned and how the residual test went
  call,        \* arguments of the last evaluate_experiment call
  locals,      \* locals of the last call that passed the precondition checks
  draw,        \* uniform variate compared with crossing_probability, per run
  ret,         \* outcome of the last call: returned verdicts or exception
  ncalls,      \* number of calls that passed the precondition checks
  verdict,     \* first verdict other than 0 each run has returned (0: none)
  lenient      \* what src/basemath/basemath.py does with the call, per run

vars == << ctor, cargs, attrs, self, seed, solver_ran, root, call, locals,
           draw, ret, ncalls, verdict, lenient >>

NoArgs == [mean_A |-> 0, mde |-> 0, alpha |-> 0, beta |-> 0,
           var_A |-> None, seed |-> None]
NoSelf == [mean_A |-> 0, mean_B |-> 0, mean_H1 |-> 0, var_A |-> 0,
           var_B |-> 0, var_H0 |-> 0, var_H1 |-> 0, alpha |-> 0, beta |-> 0,
           required_samples |-> 0, intercept |-> 0]
NoCall == [made |-> FALSE, previous_success_delta |-> 0, success_change |-> 0,
           previous_samples_number |-> 0, samples_increment |-> 0]
NoProbability == [kind |-> "none", x |-> 0]
NoLocals == [scaled_samples_increment |-> 0, scaled_success_change |-> 0,
             is_last_evaluation |-> FALSE,
             crossing_probability |-> NoProbability]
NoDraw == [scaled |-> 0, ln |-> 0]
NoRet == [kind |-> "none", message |-> "", state |-> [r \in Runs |-> 0]]
NoRoot == [x |-> 0, residual_too_large |-> FALSE]
NoLenient == [r \in Runs |->
               [kind |-> "none", state |-> 0, seed |-> None,
                crossing_probability |-> NoProbability]]

\* ------------------------------------------------------------ constructor
\* Messages of the exceptions, by the check that raises them.
MsgAlphaBeta == "Passed values for alpha and beta should be within (0, 1)"
MsgMde == "The minimum detectable effect must be positive!"
MsgMeanA == "mean_A must be positive!"
MsgBinaryMean == "the provided mean must be between 0 and 1 OR the variance must be provided."
MsgVariance == "Variance must be positive if provided!"
MsgUplift == "Cannot possibly detect an effect that brings binary target metric over 100%"
MsgSolver == "The numerical solver was not able to find a root for the provided values."

\* Variant of Validate that lets mde = 0 through (mde < 0 for mde <= 0).
ValidateMdeNegativeOnly(mean_A, mde, alpha, beta, var_A) ==
  IF \E value \in {alpha, beta} : value <= 0 \/ value >= Scale THEN MsgAlphaBeta
  ELSE IF mde < 0 THEN MsgMde
  ELSE IF mean_A <= 0 THEN MsgMeanA
  ELSE IF IsNone(var_A) /\ mean_A >= Scale THEN MsgBinaryMean
  ELSE IF ~IsNone(var_A) /\ Val(var_A) <= 0 THEN MsgVariance
  ELSE ""

\* The parameter checks at the head of __init__, in the order of the code:
\* the message of the first check that fails, "" when all pass.
Validate(mean_A, mde, alpha, beta, var_A) ==
  IF \E value \in {alpha, beta} : value <= 0 \/ value >= Scale THEN MsgAlphaBeta
  ELSE IF mde <= 0 THEN MsgMde
  ELSE IF mean_A <= 0 THEN MsgMeanA
  ELSE IF IsNone(var_A) /\ mean_A >= Scale THEN MsgBinaryMean
  ELSE IF ~IsNone(var_A) /\ Val(var_A) <= 0 THEN MsgVariance
  ELSE ""

\* self.mean_B = mean_A * (1.0 + mde)
MeanB(mean_A, mde) == (mean_A * (Scale + mde)) \div Scale

\* Variant of UpliftImpossible that also rejects a treatment mean of 1.
UpliftImpossibleAtOne(mean_B, var_A) == mean_B >= Scale /\ IsNone(var_A)

\* if self.mean_B > 1 and var_A is None: raise AnalysisException
UpliftImpossible(mean_B, var_A) == mean_B > Scale /\ IsNone(var_A)

\* mean * (1 - mean), in units of 1/VarScale
BinaryVariance(mean) == mean * (Scale - mean)

\* Variant of InitialSeed that derives the seed from a value that differs
\* between runs of the program (a salted hash of the string).
InitialSeedPerRun(seedarg, r) ==
  IF IsNone(seedarg) THEN None
  ELSE Some(IF r = 1 THEN sha256_prefix(Val(seedarg)) ELSE 0)

\* self.seed = int(hashlib.sha256(seed.encode()).hexdigest()[:8], 16), or
\* None when no seed is given; r is the run of the program.
InitialSeed(seedarg, r) ==
  IF IsNone(seedarg) THEN None ELSE Some(sha256_prefix(Val(seedarg)))

\* D(T) of _calculate_sample_size, T in units of 1/RootScale, the result in
\* units of 1/Scale:  -sqrt(2 * T * var_H1) * erfinv(1 - beta), 0 for T < 0.
D(T, var_H1, beta) ==
  IF T < 0 THEN 0
  ELSE -((ISqrt(2 * T * (var_H1 \div RootScale)) * erfinv_1_minus(beta))
          \div ErfinvScale)

\* int(np.ceil(sample_size))
Ceil(T) == -((-T) \div RootScale)

\* Variant of ResidualTooLarge with a tolerance of 1.0 where integral(T) is
\* defined as 0.
ResidualTooLargeCoarse(T, alpha, converged) ==
  IF T <= 0 THEN Abs(alpha - Scale) > Scale ELSE ~converged

\* np.abs(fun(sample_size)) > 0.000001, with fun(T) = -integral(T) - 1 + alpha
\* and integral(T) = 0 for T <= 0; for T > 0 the residual is the root
\* finder's (converged or not).
ResidualTooLarge(T, alpha, converged) ==
  IF T <= 0 THEN Abs(alpha - Scale) * 1000000 > Scale ELSE ~converged

\* Variant of calculate_sample_size without the residual test (the body of
\* the function of src/basemath/basemath.py).
calculate_sample_size_unchecked(sample_size, var_H1, alpha, beta, converged) ==
  [message |-> "", required_samples |-> Ceil(sample_size),
   intercept |-> D(sample_size, var_H1, beta)]

\* _calculate_sample_size from the value sample_size the root finder
\* returned: the exception message, or "" with the pair
\* (sample_size_int, intercept).
calculate_sample_size(sample_size, var_H1, alpha, beta, converged) ==
  LET sample_size_int == Ceil(sample_size)
      intercept == D(sample_size, var_H1, beta)
  IN IF ResidualTooLarge(sample_size, alpha, converged)
     THEN [message |-> MsgSolver, required_samples |-> 0, intercept |-> 0]
     ELSE [message |-> "", required_samples |-> sample_size_int,
           intercept |-> intercept]

\* Whether the root finder's outcome `converged` is one the library can
\* produce for these solver arguments.
SolverOutcome(var_H0, mean_H1, var_H1, converged) ==
  LET status == optimize_root(var_H0, mean_H1, var_H1).status
  IN \/ status = "unknown"
     \/ status = "converged" /\ converged
     \/ status = "failed" /\ ~converged

\* BaseMathsTest.__init__
Construct(mean_A, mde, alpha, beta, var_A, seedarg, converged) ==
  LET invalid == Validate(mean_A, mde, alpha, beta, var_A)
      mean_B == MeanB(mean_A, mde)
      mean_H1 == mean_B - mean_A
      v_A == IF IsNone(var_A) THEN BinaryVariance(mean_A) ELSE Val(var_A) * Scale
      v_B == IF IsNone(var_A) THEN BinaryVariance(mean_B) ELSE Val(var_A) * Scale
      var_H0 == 2 * v_A
      var_H1 == v_A + v_B
      args == [mean_A |-> mean_A, mde |-> mde, alpha |-> alpha, beta |-> beta,
               var_A |-> var_A, seed |-> seedarg]
      fields == [NoSelf EXCEPT !.mean_A = mean_A, !.mean_B = mean_B,
                   !.mean_H1 = mean_H1, !.var_A = v_A, !.var_B = v_B,
                   !.var_H0 = var_H0, !.var_H1 = var_H1, !.alpha = alpha,
                   !.beta = beta]
  IN /\ ctor.status = "new"
     /\ cargs' = args
     /\ UNCHANGED << call, locals, draw, ret, ncalls, verdict, lenient >>
     /\ IF invalid # ""
        THEN /\ converged
             /\ ctor' = [status |-> "raised", exception |-> "ValueError",
                         message |-> invalid]
             /\ UNCHANGED << attrs, self, seed, solver_ran, root >>
        ELSE IF UpliftImpossible(mean_B, var_A)
        THEN /\ converged
             /\ ctor' = [status |-> "raised", exception |-> "AnalysisException",
                         message |-> MsgUplift]
             /\ attrs' = {"mean_A", "mean_B"}
             /\ self' = [NoSelf EXCEPT !.mean_A = mean_A, !.mean_B = mean_B]
             /\ UNCHANGED << seed, solver_ran, root >>
        ELSE \E sample_size \in optimize_root_returns(var_H0, mean_H1, var_H1,
                                                      converged) :
             LET solved == calculate_sample_size(sample_size, var_H1,
                                                 alpha, beta, converged)
             IN /\ SolverOutcome(var_H0, mean_H1, var_H1, converged)
                /\ solver_ran' = TRUE
                /\ root' = [x |-> sample_size,
                            residual_too_large |->
                              ResidualTooLarge(sample_size, alpha, converged)]
                /\ seed' = [r \in Runs |-> InitialSeed(seedarg, r)]
                /\ IF solved.message # ""
                   THEN /\ ctor' = [status |-> "raised",
                                    exception |-> "AnalysisException",
                                    message |-> solved.message]
                        /\ attrs' = {"mean_A", "mean_B", "mean_H1", "var_A",
                                     "var_B", "var_H0", "var_H1", "alpha",
                                     "beta", "seed"}
                        /\ self' = fields
                   ELSE /\ ctor' = [status |-> "constructed",
                                    exception |-> "", message |-> ""]
                        /\ attrs' = {"mean_A", "mean_B", "mean_H1", "var_A",
                                     "var_B", "var_H0", "var_H1", "alpha",
                                     "beta", "seed", "required_samples",
                                     "intercept"}
                        /\ self' = [fields EXCEPT
                                      !.required_samples = solved.required_samples,
                                      !.intercept = solved.intercept]

\* ------------------------------------ constructor, src/basemath/basemath.py
\* Arguments <<mean_A, mde, alpha, beta, var_A>> handed to the lenient
\* constructor: those of the tests with required_samples == 30 and those of
\* test_experiment_with_negative_required_samples.
LenientArguments ==
  { << 60, 50, 5, 20, None >>, << 30, 90, 90, 1, None >> }

\* The seed handed to the lenient constructor: a name, as its docstring asks.
LenientSeedValues == {Some("b")}

\* hash(seed) of a str: salted per interpreter process (PYTHONHASHSEED), so
\* one string hashes to different values in different runs of the program.
HashValues == {-157077890, 200000461}

\* int(str(n)[:8]) for n >= 0
RECURSIVE Prefix8(_)
Prefix8(n) == IF n < 100000000 THEN n ELSE Prefix8(n \div 10)

\* self.seed = int(str(abs(hash(seed)))[:8]), or None; h is hash(seed)
lenient_InitialSeed(seedarg, h) ==
  IF IsNone(seedarg) THEN None ELSE Some(Prefix8(Abs(h)))

\* The lenient _calculate_sample_size: no residual test.
lenient_calculate_sample_size(sample_size, var_H1, beta) ==
  [required_samples |-> Ceil(sample_size),
   intercept |-> D(sample_size, var_H1, beta)]

\* The lenient BaseMathsTest.__init__: no check of the arguments; hashes[r]
\* is hash(seed) in run r.
ConstructLenient(mean_A, mde, alpha, beta, var_A, seedarg, converged, hashes) ==
  LET mean_B == MeanB(mean_A, mde)
      mean_H1 == mean_B - mean_A
      v_A == IF IsNone(var_A) THEN BinaryVariance(mean_A) ELSE Val(var_A) * Scale
      v_B == IF IsNone(var_A) THEN BinaryVariance(mean_B) ELSE Val(var_A) * Scale
      var_H0 == 2 * v_A
      var_H1 == v_A + v_B
  IN /\ ctor.status = "new"
     /\ SolverOutcome(var_H0, mean_H1, var_H1, converged)
     /\ \E sample_size \in optimize_root_returns(var_H0, mean_H1, var_H1,
                                                  converged) :
          LET solved == lenient_calculate_sample_size(sample_size, var_H1, beta)
          IN /\ root' = [x |-> sample_size, residual_too_large |-> FALSE]
             /\ self' = [mean_A |-> mean_A, mean_B |-> mean_B,
                         mean_H1 |-> mean_H1, var_A |-> v_A, var_B |-> v_B,
                         var_H0 |-> var_H0, var_H1 |-> var_H1,
                         alpha |-> alpha, beta |-> beta,
                         required_samples |-> solved.required_samples,
                         intercept |-> solved.intercept]
     /\ cargs' = [mean_A |-> mean_A, mde |-> mde, alpha |-> alpha,
                  beta |-> beta, var_A |-> var_A, seed |-> seedarg]
     /\ ctor' = [status |-> "constructed", exception |-> "", message |-> ""]
     /\ attrs' = {"mean_A", "mean_B", "mean_H1", "var_A", "var_B", "var_H0",
                  "var_H1", "alpha", "beta", "seed", "required_samples",
                  "intercept"}
     /\ seed' = [r \in Runs |-> lenient_InitialSeed(seedarg, hashes[r])]
     /\ solver_ran' = TRUE
     /\ UNCHANGED << call, locals, draw, ret, ncalls, verdict, lenient >>

Init ==
  /\ ctor = [status |-> "new", exception |-> "", message |-> ""]
  /\ cargs = NoArgs
  /\ attrs = {}
  /\ self = NoSelf
  /\ seed = [r \in Runs |-> None]
  /\ solver_ran = FALSE
  /\ root = NoRoot
  /\ call = NoCall
  /\ locals = NoLocals
  /\ draw = [r \in Runs |-> NoDraw]
  /\ ret = NoRet
  /\ ncalls = 0
  /\ verdict = [r \in Runs |-> 0]
  /\ lenient = NoLenient

\* ---------------------------------------------------- evaluate_experiment
MsgNegativeSamples == "Number of samples cannot be less than 0"
MsgSuccessesExceedSamples == "Number of successes cannot be greater than number of samples"
MsgAlreadyConcluded == "Number of samples from previous check-in is greater than required samples. A conclusion (1 or -1) should already have been reached!"
\* ZeroDivisionError of float(scaled_samples_increment) / samples_increment
MsgZeroDivision == "float division by zero"

\* Variant of Precondition without the check of the success deltas.
PreconditionNoSuccessCheck(previous_success_delta, success_change, previous_samples_number, samples_increment, required_samples) ==
  IF samples_increment < 0 \/ previous_samples_number < 0
  THEN MsgNegativeSamples
  ELSE IF previous_samples_number > required_samples
  THEN MsgAlreadyConcluded
  ELSE ""

\* Variant of Precondition without the check against required_samples (as
\* in src/basemath/basemath.py, where it is a TODO).
PreconditionNoConcludedCheck(previous_success_delta, success_change, previous_samples_number, samples_increment, required_samples) ==
  IF samples_increment < 0 \/ previous_samples_number < 0
  THEN MsgNegativeSamples
  ELSE IF \/ Abs(success_change) > samples_increment
          \/ Abs(previous_success_delta) > previous_samples_number
  THEN MsgSuccessesExceedSamples
  ELSE ""

\* Variant of Precondition that rejects a start at required_samples
\* (>= for >).
PreconditionAtOrBeyond(previous_success_delta, success_change, previous_samples_number, samples_increment, required_samples) ==
  IF samples_increment < 0 \/ previous_samples_number < 0
  THEN MsgNegativeSamples
  ELSE IF \/ Abs(success_change) > samples_increment
          \/ Abs(previous_success_delta) > previous_samples_number
  THEN MsgSuccessesExceedSamples
  ELSE IF previous_samples_number >= required_samples
  THEN MsgAlreadyConcluded
  ELSE ""

\* The precondition checks at the head of evaluate_experiment, in the order
\* of the code: the message of the AnalysisException raised, "" when the
\* call is accepted.
Precondition(previous_success_delta, success_change, previous_samples_number, samples_increment, required_samples) ==
  IF samples_increment < 0 \/ previous_samples_number < 0
  THEN MsgNegativeSamples
  ELSE IF \/ Abs(success_change) > samples_increment
          \/ Abs(previous_success_delta) > previous_samples_number
  THEN MsgSuccessesExceedSamples
  ELSE IF previous_samples_number > required_samples
  THEN MsgAlreadyConcluded
  ELSE ""

\* if previous_samples_number + samples_increment > self.required_samples
IsLastEvaluation(previous_samples_number, samples_increment, required_samples) ==
  previous_samples_number + samples_increment > required_samples

\* Variant of ScaledSamplesIncrement that clips to required_samples without
\* subtracting the samples already counted.
ScaledSamplesIncrementFromZero(previous_samples_number, samples_increment, required_samples) ==
  IF previous_samples_number + samples_increment > required_samples
  THEN required_samples
  ELSE samples_increment

\* scaled_samples_increment
ScaledSamplesIncrement(previous_samples_number, samples_increment, required_samples) ==
  IF IsLastEvaluation(previous_samples_number, samples_increment,
                      required_samples)
  THEN required_samples - previous_samples_number
  ELSE samples_increment

\* scaled_success_change, in units of 1/Scale:
\*   samples_share = float(scaled_samples_increment) / samples_increment
\*   scaled_success_change = samples_share * success_change
ScaledSuccessChange(success_change, previous_samples_number, samples_increment, required_samples) ==
  IF IsLastEvaluation(previous_samples_number, samples_increment,
                      required_samples)
  THEN LET samples_share ==
             ((required_samples - previous_samples_number) * ShareScale)
               \div samples_increment
       IN (samples_share * success_change * Scale) \div ShareScale
  ELSE success_change * Scale

\* np.exp(num / den) as its exponent in units of 1/LnScale (rounded down);
\* a division by 0.0 of a numpy float gives -inf, +inf or nan by the sign of
\* the numerator.
ExpOfQuotient(num, den) ==
  IF den = 0
  THEN IF num < 0 THEN [kind |-> "zero", x |-> 0]
       ELSE IF num > 0 THEN [kind |-> "inf", x |-> 0]
       ELSE [kind |-> "nan", x |-> 0]
  ELSE LET n == IF den < 0 THEN -num ELSE num
           d == Abs(den)
       IN [kind |-> "exp",
           x |-> (n \div d) * LnScale + ((n % d) * LnScale) \div d]

\* The probability 1.0
One == [kind |-> "exp", x |-> 0]

\* Variant of probability_of_crossing without the endpoint test: the closed
\* form is used for every interval.
probability_of_crossing_unguarded(intercept, mean_H1, var_H1, samples_0, successes_0, samples_increment, successes_change) ==
  LET term_1 == -successes_change + mean_H1 * samples_increment
      term_2 == -intercept - mean_H1 * samples_0 + successes_0
  IN ExpOfQuotient(-2 * term_2 * (term_2 - term_1),
                   samples_increment * var_H1)

\* Variant of probability_of_crossing whose closed form measures both
\* distances from the endpoint of the interval.
probability_of_crossing_from_endpoint(intercept, mean_H1, var_H1, samples_0, successes_0, samples_increment, successes_change) ==
  IF intercept + (samples_0 + samples_increment) * mean_H1
       >= successes_0 + successes_change
  THEN One
  ELSE LET term_1 == -successes_change + mean_H1 * samples_increment
           term_2 == -intercept - mean_H1 * samples_0 + successes_0
       IN ExpOfQuotient(-2 * (term_2 - term_1) * (term_2 - term_1),
                        samples_increment * var_H1)

\* _probability_of_crossing; successes in units of 1/Scale
probability_of_crossing(intercept, mean_H1, var_H1, samples_0, successes_0, samples_increment, successes_change) ==
  IF intercept + (samples_0 + samples_increment) * mean_H1
       >= successes_0 + successes_change
  THEN One
  ELSE LET term_1 == -successes_change + mean_H1 * samples_increment
           term_2 == -intercept - mean_H1 * samples_0 + successes_0
       IN ExpOfQuotient(-2 * term_2 * (term_2 - term_1),
                        samples_increment * var_H1)

\* u < crossing_probability for a uniform variate u
UniformBelow(u, p) ==
  CASE p.kind = "exp" -> u.ln < p.x
    [] p.kind = "inf" -> TRUE
    [] p.kind = "zero" -> FALSE
    [] p.kind = "nan" -> FALSE

\* Variant of DrawPairs in which the second draw continues from the first
\* (one generator kept across the two calls of stats.uniform.rvs).
DrawPairsAdvancing(s) ==
  IF IsNone(s) THEN EntropyDraws \X EntropyDraws
  ELSE {<< rvs(Val(s)), rvs(rvs(Val(s)).scaled) >>}

\* The two draws of one call in run r: both are the first variate of a
\* generator seeded with self.seed, hence equal, unless the seed is None.
DrawPairs(s) ==
  IF IsNone(s) THEN EntropyDraws \X EntropyDraws
  ELSE {<< rvs(Val(s)), rvs(Val(s)) >>}

\* self.seed = int(1_000_000_000 * stats.uniform.rvs(random_state=self.seed))
NextSeed(u) == Some(u.scaled)

\* Variant of Verdict with `is_last_evaluation | (state == 0)`.
VerdictOr(u, crossing_probability, is_last_evaluation) ==
  LET state == IF UniformBelow(u, crossing_probability) THEN -1 ELSE 0
  IN IF is_last_evaluation \/ state = 0 THEN 1 ELSE state

\* Variant of Verdict that forgets `state == 0` on the last evaluation.
VerdictIgnoresCrossing(u, crossing_probability, is_last_evaluation) ==
  LET state == IF UniformBelow(u, crossing_probability) THEN -1 ELSE 0
  IN IF is_last_evaluation THEN 1 ELSE state

\* Variant of Verdict without the last-evaluation step.
VerdictNeverPositive(u, crossing_probability, is_last_evaluation) ==
  IF UniformBelow(u, crossing_probability) THEN -1 ELSE 0

\* state: -1 on a crossing, else 1 on the last evaluation, else 0
Verdict(u, crossing_probability, is_last_evaluation) ==
  LET state == IF UniformBelow(u, crossing_probability) THEN -1 ELSE 0
  IN IF is_last_evaluation /\ state = 0 THEN 1 ELSE state

\* ------------------------------- evaluate_experiment, src/basemath/basemath.py
\* Quotient rounded down, for a divisor of either sign.
Quotient(n, d) == IF d < 0 THEN (-n) \div (-d) ELSE n \div d

\* a * b in units d times larger, rounded down (the quotient is taken before
\* the product, which keeps the intermediate value small).
Product(a, b, d) == (a \div d) * b + ((a % d) * b) \div d

\* Variant of lenient_clipping that leaves an empty batch unclipped.
lenient_clipping_guarded(success_change, previous_samples_number, samples_increment, required_samples) ==
  [error |-> FALSE, scaled_samples_increment |-> samples_increment,
   scaled_success_change |-> success_change * Scale,
   is_last_evaluation |->
     previous_samples_number + samples_increment > required_samples]

\* The clipping step of the lenient evaluate_experiment, which makes no
\* check of its arguments: the values passed on to _probability_of_crossing,
\* or the ZeroDivisionError of the share.
lenient_clipping(success_change, previous_samples_number, samples_increment, required_samples) ==
  IF previous_samples_number + samples_increment > required_samples
  THEN IF samples_increment = 0
       THEN [error |-> TRUE, scaled_samples_increment |-> 0,
             scaled_success_change |-> 0, is_last_evaluation |-> TRUE]
       ELSE LET scaled_samples_increment ==
                  required_samples - previous_samples_number
                samples_share ==
                  Quotient(scaled_samples_increment * ShareScale,
                           samples_increment)
            IN [error |-> FALSE,
                scaled_samples_increment |-> scaled_samples_increment,
                scaled_success_change |->
                  Product(samples_share, success_change,
                          ShareScale \div Scale),
                is_last_evaluation |-> TRUE]
  ELSE [error |-> FALSE, scaled_samples_increment |-> samples_increment,
        scaled_success_change |-> success_change * Scale,
        is_last_evaluation |-> FALSE]

\* The lenient evaluate_experiment in one run of the program: on an instance
\* with the attributes `fields` and the seed s, with the two uniform draws
\* `pair`.  The outcome is the verdict returned and the seed left behind, or
\* the ZeroDivisionError with the seed as it was.
lenient_evaluate_experiment(fields, s, previous_success_delta, success_change, previous_samples_number, samples_increment, pair) ==
  LET clipped == lenient_clipping(success_change, previous_samples_number,
                                  samples_increment, fields.required_samples)
      crossing_probability ==
        probability_of_crossing(fields.intercept, fields.mean_H1,
                                fields.var_H1, previous_samples_number,
                                previous_success_delta * Scale,
                                clipped.scaled_samples_increment,
                                clipped.scaled_success_change)
      crossed == UniformBelow(pair[1], crossing_probability)
      state == IF crossed THEN -1
               ELSE IF clipped.is_last_evaluation THEN 1 ELSE 0
  IN IF clipped.error
     THEN [kind |-> "raise", state |-> 0, seed |-> s,
           crossing_probability |-> NoProbability]
     ELSE [kind |-> "return", state |-> state, seed |-> NextSeed(pair[2]),
           crossing_probability |-> crossing_probability]

\* ------------------------ evaluate_experiment, src/basemath_analysis/basemath.py
\* Variant of evaluate_experiment that keeps the samples still required on
\* the instance (it writes self.required_samples).
evaluate_experiment_consuming(previous_success_delta, success_change, previous_samples_number, samples_increment, pairs) ==
  /\ ctor.status = "constructed"
  /\ ncalls < MaxCalls
  /\ Precondition(previous_success_delta, success_change,
                  previous_samples_number, samples_increment,
                  self.required_samples) = ""
  /\ \A r \in Runs : pairs[r] = CHOOSE d \in DrawPairs(seed[r]) : TRUE
  /\ self' = [self EXCEPT !.required_samples = @ - samples_increment]
  /\ ncalls' = ncalls + 1
  /\ call' = [made |-> TRUE,
              previous_success_delta |-> previous_success_delta,
              success_change |-> success_change,
              previous_samples_number |-> previous_samples_number,
              samples_increment |-> samples_increment]
  /\ UNCHANGED << ctor, cargs, attrs, seed, solver_ran, root, locals, draw,
                  ret, verdict, lenient >>

\* evaluate_experiment(previous_success_delta, success_change,
\*                     previous_samples_number, samples_increment),
\* made in both runs; pairs[r] are the two uniform draws of run r.  The
\* lenient evaluator is run beside it on every accepted call, from the same
\* attributes, seed and draws.
evaluate_experiment(previous_success_delta, success_change, previous_samples_number, samples_increment, pairs) ==
  LET message == Precondition(previous_success_delta, success_change,
                              previous_samples_number, samples_increment,
                              self.required_samples)
      is_last_evaluation ==
        IsLastEvaluation(previous_samples_number, samples_increment,
                         self.required_samples)
      scaled_samples_increment ==
        ScaledSamplesIncrement(previous_samples_number, samples_increment,
                               self.required_samples)
      scaled_success_change ==
        ScaledSuccessChange(success_change, previous_samples_number,
                            samples_increment, self.required_samples)
      crossing_probability ==
        probability_of_crossing(self.intercept, self.mean_H1, self.var_H1,
                                previous_samples_number,
                                previous_success_delta * Scale,
                                scaled_samples_increment,
                                scaled_success_change)
      state == [r \in Runs |-> Verdict(pairs[r][1], crossing_probability,
                                       is_last_evaluation)]
  IN /\ ctor.status = "constructed"
     /\ call' = [made |-> TRUE,
                 previous_success_delta |-> previous_success_delta,
                 success_change |-> success_change,
                 previous_samples_number |-> previous_samples_number,
                 samples_increment |-> samples_increment]
     /\ UNCHANGED << ctor, cargs, attrs, self, solver_ran, root >>
     /\ IF message # "" \/ (is_last_evaluation /\ samples_increment = 0)
        THEN /\ \A r \in Runs : pairs[r] = CHOOSE d \in DrawPairs(seed[r]) : TRUE
             /\ ret' = [kind |-> "raise",
                        message |-> IF message # "" THEN message
                                    ELSE MsgZeroDivision,
                        state |-> [r \in Runs |-> 0]]
             /\ locals' = NoLocals
             /\ draw' = [r \in Runs |-> NoDraw]
             /\ lenient' = NoLenient
             /\ UNCHANGED << seed, ncalls, verdict >>
        ELSE /\ ncalls < MaxCalls
             /\ ncalls' = ncalls + 1
             /\ locals' = [scaled_samples_increment |-> scaled_samples_increment,
                           scaled_success_change |-> scaled_success_change,
                           is_last_evaluation |-> is_last_evaluation,
                           crossing_probability |-> crossing_probability]
             /\ draw' = [r \in Runs |-> pairs[r][1]]
             /\ seed' = [r \in Runs |-> NextSeed(pairs[r][2])]
             /\ ret' = [kind |-> "return", message |-> "", state |-> state]
             /\ verdict' = [r \in Runs |->
                              IF verdict[r] = 0 THEN state[r] ELSE verdict[r]]
             /\ lenient' = [r \in Runs |->
                             lenient_evaluate_experiment(self, seed[r],
                               previous_success_delta, success_change,
                               previous_samples_number, samples_increment,
                               pairs[r])]

\* ---------------------------------------------------------- specification
\* The draws the two runs can make in one call.
PairChoices ==
  { p \in [Runs -> UNION { DrawPairs(seed[r]) : r \in Runs }] :
      \A r \in Runs : p[r] \in DrawPairs(seed[r]) }

Next ==
  \/ \E mean_A \in MeanValues, mde \in MdeValues, alpha \in AlphaValues,
        beta \in BetaValues, var_A \in VarValues, seedarg \in SeedValues,
        converged \in BOOLEAN :
       Construct(mean_A, mde, alpha, beta, var_A, seedarg, converged)
  \/ \E pairs \in PairChoices :
       \E previous_samples_number \in PrevSamples,
          samples_increment \in Increments,
          previous_success_delta \in PrevDeltas,
          success_change \in Changes :
         evaluate_experiment(previous_success_delta, success_change,
                             previous_samples_number, samples_increment, pairs)

Spec == Init /\ [][Next]_vars

\* The lenient evaluate_experiment as a step of the program, made in both
\* runs.
evaluate_experiment_lenient(previous_success_delta, success_change, previous_samples_number, samples_increment, pairs) ==
  LET clipped == lenient_clipping(success_change, previous_samples_number,
                                  samples_increment, self.required_samples)
  IN /\ ctor.status = "constructed"
     /\ call' = [made |-> TRUE,
                 previous_success_delta |-> previous_success_delta,
                 success_change |-> success_change,
                 previous_samples_number |-> previous_samples_number,
                 samples_increment |-> samples_increment]
     /\ UNCHANGED << ctor, cargs, attrs, self, solver_ran, root >>
     /\ lenient' = [r \in Runs |->
                     lenient_evaluate_experiment(self, seed[r],
                       previous_success_delta, success_change,
                       previous_samples_number, samples_increment, pairs[r])]
     /\ IF clipped.error
        THEN /\ \A r \in Runs : pairs[r] = CHOOSE d \in DrawPairs(seed[r]) : TRUE
             /\ ret' = [kind |-> "raise", message |-> MsgZeroDivision,
                        state |-> [r \in Runs |-> 0]]
             /\ locals' = NoLocals
             /\ draw' = [r \in Runs |-> NoDraw]
             /\ UNCHANGED << seed, ncalls, verdict >>
        ELSE /\ ncalls < MaxCalls
             /\ ncalls' = ncalls + 1
             /\ locals' = [scaled_samples_increment |->
                             clipped.scaled_samples_increment,
                           scaled_success_change |->
                             clipped.scaled_success_change,
                           is_last_evaluation |-> clipped.is_last_evaluation,
                           crossing_probability |->
                             lenient'[1].crossing_probability]
             /\ draw' = [r \in Runs |-> pairs[r][1]]
             /\ seed' = [r \in Runs |-> lenient'[r].seed]
             /\ ret' = [kind |-> "return", message |-> "",
                        state |-> [r \in Runs |-> lenient'[r].state]]
             /\ verdict' = [r \in Runs |->
                              IF verdict[r] = 0 THEN lenient'[r].state
                              ELSE verdict[r]]

\* The lenient variant: its constructor, then its evaluate_experiment calls.
NextLenient ==
  \/ \E a \in LenientArguments, seedarg \in LenientSeedValues,
        converged \in BOOLEAN, hashes \in [Runs -> HashValues] :
       ConstructLenient(a[1], a[2], a[3], a[4], a[5], seedarg, converged,
                        hashes)
  \/ \E pairs \in PairChoices :
       \E previous_samples_number \in PrevSamples,
          samples_increment \in Increments,
          previous_success_delta \in PrevDeltas,
          success_change \in Changes :
         evaluate_experiment_lenient(previous_success_delta, success_change,
                                     previous_samples_number,
                                     samples_increment, pairs)

SpecLenient == Init /\ [][NextLenient]_vars

\* The constructor alone, for the claims about construction.
NextConstruct ==
  \E mean_A \in MeanValues, mde \in MdeValues, alpha \in AlphaValues,
     beta \in BetaValues, var_A \in VarValues, seedarg \in SeedValues,
     converged \in BOOLEAN :
    Construct(mean_A, mde, alpha, beta, var_A, seedarg, converged)

SpecConstruct == Init /\ [][NextConstruct]_vars

TypeOK ==
  /\ ctor.status \in {"new", "raised", "constructed"}
  /\ ncalls \in 0..MaxCalls
  /\ \A r \in Runs : verdict[r] \in {-1, 0, 1}

\* ------------------------------------------------------- observations
Returned == ret.kind = "return"
Raised == ret.kind = "raise"
Constructed == ctor.status = "constructed"
SeedGiven == ~IsNone(cargs.seed)

\* Samples the last accepted call started from, and ended at after clipping.
StartSamples == call.previous_samples_number
ReportedSamples == call.previous_samples_number + call.samples_increment
CountedSamples == call.previous_samples_number + locals.scaled_samples_increment

\* ================================================================= claims

\* C1: once evaluate_experiment has returned 1 or -1 on an instance, every
\* later call on it raises or returns that same verdict.  (The instance keeps
\* no verdict: the statement is refuted by the model.)
C1_VerdictsTerminal ==
  [][\A r \in Runs :
       (verdict[r] # 0 /\ ret'.kind = "return") => ret'.state[r] = verdict[r]]_vars

\* C2 as stated: whenever a verdict other than 0 is returned, the samples
\* counted so far have reached required_samples.
C2_NonPendingNeedsRequiredSamples ==
  \A r \in Runs :
    (Returned /\ ret.state[r] # 0) => CountedSamples >= self.required_samples

\* C2 as amended: whenever the verdict 1 is returned, the samples counted so
\* far (previous_samples_number plus the counted increment) have reached
\* required_samples; the verdict -1 can be returned before.
C2_PositiveNeedsRequiredSamples ==
  \A r \in Runs :
    (Returned /\ ret.state[r] = 1) => CountedSamples >= self.required_samples

C2_Witness ==
  /\ Returned
  /\ ret.state[1] = 1
  /\ CountedSamples = self.required_samples
  /\ ReportedSamples > self.required_samples

\* C3: in an accepted call whose endpoint delta (after clipping) is at or
\* below intercept + counted samples * mean_H1, the crossing probability is
\* exactly 1 and the verdict is -1 whatever the uniform draw is.
C3_BoundarySureness ==
  LET endpoint == call.previous_success_delta * Scale
                    + locals.scaled_success_change
      boundary == self.intercept + CountedSamples * self.mean_H1
  IN (Returned /\ endpoint <= boundary) =>
       /\ locals.crossing_probability = One
       /\ \A r \in Runs : ret.state[r] = -1

\* A clipped (final) call below the boundary, with the highest draw.
C3_Witness ==
  /\ Returned
  /\ locals.is_last_evaluation
  /\ locals.scaled_samples_increment > 0
  /\ call.previous_success_delta * Scale + locals.scaled_success_change
       <= self.intercept + CountedSamples * self.mean_H1
  /\ draw[1].scaled = 999999999
  /\ ret.state[1] = -1

\* C4: in an accepted call that reports more samples than required_samples,
\* the increment used is exactly required_samples - previous_samples_number
\* and the success change used is success_change * (clipped increment /
\* samples_increment), up to the rounding of the number format; otherwise
\* both are used as reported.  The samples counted never exceed
\* required_samples.
C4_ClippingCorrectness ==
  Returned =>
    /\ CountedSamples <= self.required_samples
    /\ IF ReportedSamples > self.required_samples
       THEN LET clipped == self.required_samples - StartSamples
            IN /\ locals.scaled_samples_increment = clipped
               /\ Abs(locals.scaled_success_change * call.samples_increment
                        - call.success_change * clipped * Scale)
                    < 2 * call.samples_increment
       ELSE /\ locals.scaled_samples_increment = call.samples_increment
            /\ locals.scaled_success_change = call.success_change * Scale

\* A batch cut to a proper, nonzero part, with a nonzero success change.
C4_Witness ==
  /\ Returned
  /\ ReportedSamples > self.required_samples
  /\ StartSamples > 0
  /\ locals.scaled_samples_increment > 0
  /\ locals.scaled_samples_increment < call.samples_increment
  /\ call.success_change # 0
  /\ locals.scaled_success_change # call.success_change * Scale

\* C5: two instances constructed with the same parameters and the same seed
\* string, fed the same calls, return the same verdict at every call.
C5_Determinism ==
  (Constructed /\ SeedGiven) =>
    \A r1, r2 \in Runs : ret.state[r1] = ret.state[r2]

\* The second accepted call of a seeded instance, returning a verdict that
\* the coin flip decided (a crossing probability strictly between 0 and 1).
C5_Witness ==
  /\ Constructed
  /\ SeedGiven
  /\ ncalls = 2
  /\ Returned
  /\ locals.crossing_probability.kind = "exp"
  /\ locals.crossing_probability.x < 0
  /\ ret.state[1] = -1
  /\ ret.state[2] = -1

\* C6: an accepted call returns 1 exactly when it reports strictly more
\* samples than required_samples and the coin flip signalled no crossing; a
\* call reporting at most required_samples never returns 1 and a call
\* exceeding it never returns 0.
C6_PositiveVerdict ==
  Returned =>
    \A r \in Runs :
      /\ ret.state[r] = 1 <=>
           /\ ReportedSamples > self.required_samples
           /\ ~UniformBelow(draw[r], locals.crossing_probability)
      /\ ReportedSamples <= self.required_samples => ret.state[r] # 1
      /\ ReportedSamples > self.required_samples => ret.state[r] # 0

\* A call that reaches required_samples exactly and stays pending.
C6_Witness ==
  /\ Returned
  /\ call.samples_increment > 0
  /\ ReportedSamples = self.required_samples
  /\ ret.state[1] = 0

\* C7: evaluate_experiment raises AnalysisException, and returns no verdict,
\* when a number of samples is negative, when a success delta exceeds its
\* number of samples or when previous_samples_number > required_samples; a
\* rejected call leaves the instance (its attributes and its seed) unchanged.
C7_Rejects ==
  (call.made /\
     \/ call.samples_increment < 0
     \/ call.previous_samples_number < 0
     \/ Abs(call.success_change) > call.samples_increment
     \/ Abs(call.previous_success_delta) > call.previous_samples_number
     \/ call.previous_samples_number > self.required_samples)
  => (Raised /\ \A r \in Runs : ret.state[r] = 0)

ViolatedConstraints ==
  (IF \/ cargs.alpha <= 0 \/ cargs.alpha >= Scale
      \/ cargs.beta <= 0 \/ cargs.beta >= Scale
   THEN {MsgAlphaBeta} ELSE {})
  \cup (IF cargs.mde <= 0 THEN {MsgMde} ELSE {})
  \cup (IF cargs.mean_A <= 0 THEN {MsgMeanA} ELSE {})
  \cup (IF IsNone(cargs.var_A) /\ cargs.mean_A >= Scale
        THEN {MsgBinaryMean} ELSE {})
  \cup (IF ~IsNone(cargs.var_A) /\ Val(cargs.var_A) <= 0
        THEN {MsgVariance} ELSE {})

\* C9: constructing with alpha or beta outside (0, 1), mde <= 0,
\* mean_A <= 0, mean_A >= 1 without a variance, or a variance <= 0 raises
\* ValueError with the message of a violated constraint, and the boundary
\* solver is not run.
C9_ConstructionValidation ==
  (ctor.status # "new" /\ ViolatedConstraints # {}) =>
    /\ ctor.status = "raised"
    /\ ctor.exception = "ValueError"
    /\ ctor.message \in ViolatedConstraints
    /\ ~solver_ran

\* alpha = 1 itself is rejected, with all other arguments in their domain.
C9_Witness ==
  /\ ctor.status = "raised"
  /\ cargs.alpha = Scale
  /\ ViolatedConstraints = {MsgAlphaBeta}
  /\ ctor.message = MsgAlphaBeta

\* C10: without var_A and with the other arguments in their domain, the
\* constructor raises the 'over 100%' AnalysisException exactly when
\* mean_A * (1 + mde) > 1; with var_A it never raises it.
C10_ImpossibleUplift ==
  LET uplift == ctor.status = "raised"
                  /\ ctor.exception = "AnalysisException"
                  /\ ctor.message = MsgUplift
  IN ctor.status # "new" =>
       /\ (IsNone(cargs.var_A) /\ ViolatedConstraints = {}) =>
            (uplift <=> cargs.mean_A * (Scale + cargs.mde) > Scale * Scale)
       /\ ~IsNone(cargs.var_A) => ~uplift

\* A treatment mean of exactly 1 passes the check and reaches the solver.
C10_Witness ==
  /\ ctor.status # "new"
  /\ IsNone(cargs.var_A)
  /\ ViolatedConstraints = {}
  /\ cargs.mean_A * (Scale + cargs.mde) = Scale * Scale
  /\ solver_ran
  /\ ctor.message # MsgUplift

\* The messages of the construction-time errors of the constraint list.
ConstraintMessages ==
  {MsgAlphaBeta, MsgMde, MsgMeanA, MsgBinaryMean, MsgVariance, MsgUplift}

\* C11: when the constructor raises for a violated construction-time
\* constraint (a parameter check or the binary uplift check), no attribute has
\* been assigned on the instance.  (mean_A and mean_B are assigned before the
\* uplift check: the statement is refuted by the model.)
C11_NoPartialConstruction ==
  (ctor.status = "raised" /\ ctor.message \in ConstraintMessages)
    => attrs = {}

\* C12: once the boundary solver has run, the constructor completes only if
\* the residual at the returned root is within 1e-6; otherwise it raises
\* AnalysisException with the solver message, which is not a ValueError and
\* none of the validation messages, and required_samples and intercept are
\* never assigned.
C12_SolverResidual ==
  solver_ran =>
    /\ Constructed <=> ~root.residual_too_large
    /\ root.residual_too_large =>
         /\ ctor.status = "raised"
         /\ ctor.exception = "AnalysisException"
         /\ ctor.exception # "ValueError"
         /\ ctor.message = MsgSolver
         /\ ctor.message \notin ConstraintMessages
         /\ attrs \cap {"required_samples", "intercept"} = {}

\* The construction of the repository's test (mean_A = 5, mde = 0.5,
\* var_A = 2): a positive value returned, the residual too large.
C12_Witness ==
  /\ ctor.status = "raised"
  /\ ctor.message = MsgSolver
  /\ cargs.mean_A = 500
  /\ cargs.mde = 50
  /\ root.x > 0
  /\ root.residual_too_large

\* C13: in the lenient variant, two runs of the program that construct the
\* instance with the same parameters and the same seed string and make the
\* same calls return the same verdict at every call.  (The seed is derived
\* from hash(seed), which differs between runs: the statement is refuted by
\* the model.)
C13_LenientReproducibility ==
  (Constructed /\ SeedGiven) =>
    \A r1, r2 \in Runs : ret.state[r1] = ret.state[r2]

\* C16: in the lenient variant a call with previous_samples_number >
\* required_samples is not rejected: with samples_increment = 0 it ends in
\* the ZeroDivisionError of the clipping step without a verdict, otherwise it
\* returns a verdict.
C16_LenientAccepts ==
  (call.made /\ call.previous_samples_number > self.required_samples) =>
    IF call.samples_increment = 0
    THEN /\ Raised
         /\ ret.message = MsgZeroDivision
         /\ \A r \in Runs : ret.state[r] = 0
    ELSE Returned

C14_Immutable ==
  [][ctor.status = "constructed" =>
       /\ self' = self
       /\ attrs' = attrs
       /\ ctor' = ctor]_vars

\* Two accepted calls have moved the seed, and the last call was rejected.
C14_Witness ==
  /\ Constructed
  /\ SeedGiven
  /\ ncalls = 2
  /\ Raised
  /\ seed[1] # InitialSeed(cargs.seed, 1)
  /\ self.required_samples = 30

\* The seed after k accepted calls on an instance whose seed was s.
RECURSIVE SeedAfter(_, _)
SeedAfter(s, k) ==
  IF k = 0 THEN s ELSE SeedAfter(rvs(s).scaled, k - 1)

\* C15: on an instance constructed with a seed, the seed stored after k
\* accepted calls is the k-th element of the chain
\* s -> int(1_000_000_000 * rvs(s)) from the initial seed, whatever the
\* arguments of the calls and the verdicts returned; every accepted call
\* advances it by exactly one element.
C15_SeedChain ==
  /\ [](Constructed /\ SeedGiven =>
          \A r \in Runs :
            seed[r] = Some(SeedAfter(Val(InitialSeed(cargs.seed, r)), ncalls)))
  /\ [][\A r \in Runs :
          (Constructed /\ ~IsNone(seed[r]) /\ ret'.kind = "return"
             /\ ncalls' = ncalls + 1)
            => seed'[r] = Some(rvs(Val(seed[r])).scaled)]_vars

\* The second accepted call returned 1 after a first one that returned -1:
\* the seed is two elements down the chain.
C15_Witness ==
  /\ Constructed
  /\ SeedGiven
  /\ ncalls = 2
  /\ Returned
  /\ verdict[1] = -1
  /\ ret.state[1] = 1
  /\ seed[1] = Some(850773827)

\* C17: in an accepted call that starts on or below the boundary
\* (previous_success_delta <= intercept + previous_samples_number * mean_H1)
\* the verdict is -1 in every run, whatever the batch and the draw are.
C17_StartBelowBoundaryFails ==
  (Returned /\ call.previous_success_delta * Scale
                 <= self.intercept + call.previous_samples_number * self.mean_H1)
    => \A r \in Runs : ret.state[r] = -1

\* A start below the boundary with a batch that ends above it: the closed
\* form is used and is at least 1, the draw is the highest.
C17_Witness ==
  /\ Returned
  /\ call.previous_success_delta * Scale
       <= self.intercept + call.previous_samples_number * self.mean_H1
  /\ call.previous_success_delta * Scale + locals.scaled_success_change
       > self.intercept + CountedSamples * self.mean_H1
  /\ locals.crossing_probability.kind = "exp"
  /\ locals.crossing_probability.x > 0
  /\ draw[1].scaled = 999999999
  /\ ret.state[1] = -1

\* C18: no call ends in the ZeroDivisionError of the clipping step; in an
\* accepted call that takes the clipping branch, samples_increment > 0, the
\* clipped increment is required_samples - previous_samples_number and lies
\* in [0, samples_increment), so the share lies in [0, 1).
C18_ClippingDefined ==
  /\ ret.message # MsgZeroDivision
  /\ (Returned /\ locals.is_last_evaluation) =>
       /\ call.samples_increment > 0
       /\ locals.scaled_samples_increment
            = self.required_samples - call.previous_samples_number
       /\ locals.scaled_samples_increment >= 0
       /\ locals.scaled_samples_increment < call.samples_increment
       /\ (locals.scaled_samples_increment * ShareScale)
            \div call.samples_increment \in 0 .. (ShareScale - 1)

\* A call that starts exactly at required_samples: the clipped increment is
\* 0, the share 0.
C18_Witness ==
  /\ Returned
  /\ locals.is_last_evaluation
  /\ call.previous_samples_number = self.required_samples
  /\ locals.scaled_samples_increment = 0
  /\ call.samples_increment > 0

\* C19: a constructed instance has required_samples >= 1; when the root
\* finder returns a value <= 0 the constructor raises the solver's
\* AnalysisException (here alpha <= 0.99 < 1 - 1e-6 in every construction).
C19_RequiredSamplesPositive ==
  /\ Constructed => self.required_samples >= 1
  /\ (solver_ran /\ root.x <= 0) =>
       /\ root.residual_too_large
       /\ ctor.status = "raised"
       /\ ctor.message = MsgSolver

\* The root finder returned -301.0 and the construction was refused.
C19_Witness ==
  /\ solver_ran
  /\ root.x = -3010
  /\ ctor.status = "raised"
  /\ ctor.message = MsgSolver
  /\ cargs.alpha < Scale - 1

\* C20: on every call the strict evaluate_experiment accepts, the lenient
\* evaluate_experiment, run from the same attributes, seed and draws,
\* returns the same verdict and leaves the same seed.
C20_StrictRefinesLenient ==
  Returned =>
    \A r \in Runs :
      /\ lenient[r].kind = "return"
      /\ lenient[r].state = ret.state[r]
      /\ lenient[r].seed = seed[r]

\* A clipped last call with a nonzero success change, returning 1 in both
\* variants.
C20_Witness ==
  /\ Returned
  /\ locals.is_last_evaluation
  /\ locals.scaled_samples_increment > 0
  /\ locals.scaled_success_change # call.success_change * Scale
  /\ ret.state[1] = 1
  /\ lenient[1].state = 1
  /\ lenient[1].seed = seed[1]

=============================================================================
